---- MODULE Spec2Model ----
(***************************************************************************)
(* Unit conversion (src/unit_converter.py), shopping-list ingredient        *)
(* scaling (src/app.py, get_shopping_list.scale_ingredient) and duration    *)
(* formatting (src/recipe_scraper.py, parse_iso_duration).                  *)
(*                                                                         *)
(* A text is a sequence of characters; a character is a one-character      *)
(* string, and "deg" stands for the degree sign.  Floats are modelled by    *)
(* exact rationals n/d, plus the two special values inf and nan that        *)
(* float() and float arithmetic produce beyond the range of a double.       *)
(***************************************************************************)
EXTENDS Integers, Sequences, FiniteSets, TLC

VARIABLES
    pc,         \* "ready": inputs chosen, call not made; "done": call returned or raised
    text,       \* the str passed to the call: the text of convert_text, the ingredient
                \* of scale_ingredient, the unit of convert_measurement, the duration
    quantity,   \* the float passed to convert_measurement as its amount
    scale,      \* the scale passed to scale_ingredient: <<p, q>> is the float p / q
    result      \* [raised |-> name of the escaping exception or "none", value |-> returned str]
                \* (for convert_measurement the value is the pair [amount, unit])

vars == <<pc, text, quantity, scale, result>>

(***************************************************************************)
(* Characters and the classes of the re module that the patterns use.      *)
(***************************************************************************)
Digits == {"0", "1", "2", "3", "4", "5", "6", "7", "8", "9"}

LowerLetters ==
    {"a", "b", "c", "d", "e", "f", "g", "h", "i", "j", "k", "l", "m",
     "n", "o", "p", "q", "r", "s", "t", "u", "v", "w", "x", "y", "z"}

\* the upper-case letters, each with its lower-case letter
UpperToLower ==
    [A |-> "a", B |-> "b", C |-> "c", D |-> "d", E |-> "e", F |-> "f", G |-> "g",
     H |-> "h", I |-> "i", J |-> "j", K |-> "k", L |-> "l", M |-> "m", N |-> "n",
     O |-> "o", P |-> "p", Q |-> "q", R |-> "r", S |-> "s", T |-> "t", U |-> "u",
     V |-> "v", W |-> "w", X |-> "x", Y |-> "y", Z |-> "z"]

\* \d
IsDigit(c) == c \in Digits

\* \s
IsSpace(c) == c \in {" ", "\t", "\n"}

\* \w, the class that decides \b
IsWord(c) == c \in Digits \/ c = "_" \/ c \in LowerLetters \/ c \in DOMAIN UpperToLower

\* str.lower() on one character; also the case folding of re.IGNORECASE
lower_char(c) == IF c \in DOMAIN UpperToLower THEN UpperToLower[c] ELSE c

\* str.lower()
lower(s) == [i \in 1..Len(s) |-> lower_char(s[i])]

DigitVal(c) ==
    CASE c = "0" -> 0 [] c = "1" -> 1 [] c = "2" -> 2 [] c = "3" -> 3 [] c = "4" -> 4
      [] c = "5" -> 5 [] c = "6" -> 6 [] c = "7" -> 7 [] c = "8" -> 8 [] c = "9" -> 9

DigitChar(n) ==
    CASE n = 0 -> "0" [] n = 1 -> "1" [] n = 2 -> "2" [] n = 3 -> "3" [] n = 4 -> "4"
      [] n = 5 -> "5" [] n = 6 -> "6" [] n = 7 -> "7" [] n = 8 -> "8" [] n = 9 -> "9"

\* the concatenation of the sequences of ss, by halves
RECURSIVE Flatten(_)
Flatten(ss) ==
    IF ss = <<>> THEN <<>>
    ELSE IF Len(ss) = 1 THEN ss[1]
    ELSE LET h == Len(ss) \div 2
         IN  Flatten(SubSeq(ss, 1, h)) \o Flatten(SubSeq(ss, h + 1, Len(ss)))

\* the candidates of a pattern followed by another, in the order backtracking tries them
FlatMap(xs, F(_)) == Flatten([i \in 1..Len(xs) |-> F(xs[i])])

RECURSIVE Pow10(_)
Pow10(k) == IF k = 0 THEN 1 ELSE 10 * Pow10(k - 1)

Min(S) == CHOOSE x \in S : \A y \in S : x <= y

\* position of the first occurrence of c in s at or after i, 0 when absent
IndexOf(s, c, i) ==
    LET at == {j \in i..Len(s) : s[j] = c} IN IF at = {} THEN 0 ELSE Min(at)

(***************************************************************************)
(* Pieces of the regular expressions.  A position is the index of the next  *)
(* character to read.  Each operator returns the end positions the piece    *)
(* can reach from j, in the order the backtracking matcher tries them.      *)
(***************************************************************************)
\* length of the run of digits (of white space) that starts at j
DigitRun(s, j) ==
    LET stop == {t \in j..Len(s) : ~IsDigit(s[t])}
    IN  IF stop = {} THEN Len(s) - j + 1 ELSE Min(stop) - j

SpaceRun(s, j) ==
    LET stop == {t \in j..Len(s) : ~IsSpace(s[t])}
    IN  IF stop = {} THEN Len(s) - j + 1 ELSE Min(stop) - j

\* \d+  (greedy: longest first)
DigitsEnds(s, j) ==
    LET run == DigitRun(s, j) IN [k \in 1..run |-> j + run - k + 1]

\* \s* (min = 0) and \s+ (min = 1), greedy
SpacesEnds(s, j, min) ==
    LET run == SpaceRun(s, j) IN [k \in 1..(run - min + 1) |-> j + run - k + 1]

\* (?:<c>\d+)?  for c = "/" or "."
OptSuffixEnds(s, j, c) ==
    (IF j <= Len(s) /\ s[j] = c THEN DigitsEnds(s, j + 1) ELSE <<>>) \o <<j>>

\* \d+(?:/\d+)?(?:\.\d+)?
NumberEnds(s, j) ==
    LET Dec(e) == OptSuffixEnds(s, e, ".")
        Frac(e) == FlatMap(OptSuffixEnds(s, e, "/"), Dec)
    IN  FlatMap(DigitsEnds(s, j), Frac)

\* a literal of the pattern at j, had the pattern been compiled without re.IGNORECASE
LiteralAtCaseSensitive(s, j, lit) ==
    /\ j + Len(lit) - 1 <= Len(s)
    /\ \A k \in 1..Len(lit) : s[j + k - 1] = lit[k]

\* a literal of the pattern at j, under re.IGNORECASE
LiteralAt(s, j, lit) ==
    /\ j + Len(lit) - 1 <= Len(s)
    /\ \A k \in 1..Len(lit) : lower_char(s[j + k - 1]) = lit[k]

\* (?:to\s+\d+(?:/\d+)?(?:\.\d+)?\s*)?
RangeEnds(s, j) ==
    LET Trail(e) == SpacesEnds(s, e, 0)
        Num(e) == FlatMap(NumberEnds(s, e), Trail)
    IN  (IF LiteralAt(s, j, <<"t", "o">>)
         THEN FlatMap(SpacesEnds(s, j + 2, 1), Num)
         ELSE <<>>) \o <<j>>

\* the alternatives of group 2, in the order of the pattern
UNIT_ALTERNATIVES ==
    << <<"c", "u", "p">>,
       <<"c", "u", "p", "s">>,
       <<"t", "a", "b", "l", "e", "s", "p", "o", "o", "n">>,
       <<"t", "a", "b", "l", "e", "s", "p", "o", "o", "n", "s">>,
       <<"t", "b", "s", "p">>,
       <<"t", "e", "a", "s", "p", "o", "o", "n">>,
       <<"t", "e", "a", "s", "p", "o", "o", "n", "s">>,
       <<"t", "s", "p">>,
       <<"f", "l", "u", "i", "d", " ", "o", "u", "n", "c", "e">>,
       <<"f", "l", "u", "i", "d", " ", "o", "u", "n", "c", "e", "s">>,
       <<"f", "l", " ", "o", "z">>,
       <<"p", "i", "n", "t">>,
       <<"p", "i", "n", "t", "s">>,
       <<"q", "u", "a", "r", "t">>,
       <<"q", "u", "a", "r", "t", "s">>,
       <<"g", "a", "l", "l", "o", "n">>,
       <<"g", "a", "l", "l", "o", "n", "s">>,
       <<"o", "u", "n", "c", "e">>,
       <<"o", "u", "n", "c", "e", "s">>,
       <<"o", "z">>,
       <<"p", "o", "u", "n", "d">>,
       <<"p", "o", "u", "n", "d", "s">>,
       <<"l", "b">>,
       <<"l", "b", "s">>,
       <<"deg", "f">>,
       <<"f", "a", "h", "r", "e", "n", "h", "e", "i", "t">>,
       <<"f">> >>

\* the pattern without its \b: every position passes
WordBoundaryAnywhere(s, j) == TRUE

\* \b at position j: exactly one of the characters around j is a word character
WordBoundary(s, j) ==
    LET before == j > 1 /\ j - 1 <= Len(s) /\ IsWord(s[j - 1])
        after == j <= Len(s) /\ IsWord(s[j])
    IN  before # after

\* index of the first element of xs that satisfies P, 0 when none does: the choice
\* a backtracking matcher settles on among candidates tried in order
MinOrZero(S) == IF S = {} THEN 0 ELSE Min(S)

FirstIndex(xs, P(_)) == MinOrZero({i \in 1..Len(xs) : P(xs[i])})

\* (cup|cups|...|f)\b at j: the end of the first alternative that matches and is
\* followed by a word boundary, 0 when none
AlternativeEnd(j, a) == IF a = 0 THEN 0 ELSE j + Len(UNIT_ALTERNATIVES[a])

UnitEnd(s, j) ==
    LET Alt(u) == LiteralAt(s, j, u) /\ WordBoundary(s, j + Len(u))
    IN  AlternativeEnd(j, FirstIndex(UNIT_ALTERNATIVES, Alt))

NoMatch == [found |-> FALSE, start |-> 0, end |-> 0, g1 |-> <<>>, g2 |-> <<>>]

\* the ways to match what precedes group 2 from position i, in the order the
\* backtracking tries them (group 1 longest first, then the white space, then the
\* range): each is <<end of group 1, start of group 2>>
PairsWith(e1, us) == [k \in 1..Len(us) |-> <<e1, us[k]>>]

AmountEnds(s, i) ==
    LET AfterNumber(e1) ==
            LET AfterSpace(w) == PairsWith(e1, RangeEnds(s, w))
            IN  FlatMap(SpacesEnds(s, e1, 0), AfterSpace)
    IN  FlatMap(NumberEnds(s, i), AfterNumber)

\* the match object: start, end, group(1), group(2)
Match(s, i, e1, u1, u2) ==
    [found |-> TRUE, start |-> i, end |-> u2,
     g1 |-> SubSeq(s, i, e1 - 1), g2 |-> SubSeq(s, u1, u2 - 1)]

MatchWith(s, i, cs, a) ==
    IF a = 0 THEN NoMatch ELSE Match(s, i, cs[a][1], cs[a][2], UnitEnd(s, cs[a][2]))

FirstMatch(s, i, cs) ==
    LET UnitOK(c) == UnitEnd(s, c[2]) # 0
    IN  MatchWith(s, i, cs, FirstIndex(cs, UnitOK))

\* self.measurement_pattern tried at position i: the first way to match what precedes
\* group 2 after which a unit and a word boundary follow
measurement_pattern(s, i) == FirstMatch(s, i, AmountEnds(s, i))

(***************************************************************************)
(* Floats.  [k |-> "fin", n, d] is the float n / d (d > 0); "inf" and "nan"  *)
(* are the special values; "ValueError", "ZeroDivisionError" and            *)
(* "OverflowError" in k say that the operation raised that exception.       *)
(***************************************************************************)
Fin(n, d) == [k |-> "fin", n |-> n, d |-> d]
Inf == [k |-> "inf", n |-> 0, d |-> 1]
NaN == [k |-> "nan", n |-> 0, d |-> 1]
Raise(e) == [k |-> e, n |-> 0, d |-> 1]
IsExc(x) == x.k \in {"ValueError", "ZeroDivisionError", "OverflowError"}

\* a decimal integer of more than this many digits is above the largest double
FloatMaxDigits == 309

RECURSIVE IntVal(_, _)
IntVal(ds, acc) ==
    IF ds = <<>> THEN acc ELSE IntVal(Tail(ds), 10 * acc + DigitVal(Head(ds)))

\* ds without its leading zeros
StripZeros(ds) ==
    LET nz == {t \in 1..Len(ds) : ds[t] # "0"}
    IN  IF nz = {} THEN <<>> ELSE SubSeq(ds, Min(nz), Len(ds))

\* float(str) for a str of digits with at most one "."
float(str) ==
    LET dot == IndexOf(str, ".", 1)
        ip == IF dot = 0 THEN str ELSE SubSeq(str, 1, dot - 1)
        fp == IF dot = 0 THEN <<>> ELSE SubSeq(str, dot + 1, Len(str))
    IN  IF ip \o fp = <<>> \/ \E i \in 1..Len(ip \o fp) : ~IsDigit((ip \o fp)[i])
        THEN Raise("ValueError")
        ELSE IF Len(StripZeros(ip)) > FloatMaxDigits
        THEN Inf
        ELSE Fin(IntVal(ip, 0) * Pow10(Len(fp)) + IntVal(fp, 0), Pow10(Len(fp)))

\* greatest common divisor, used to keep the rationals in lowest terms
RECURSIVE GCD(_, _)
GCD(a, b) ==
    IF b = 0 THEN (IF a = 0 THEN 1 ELSE IF a < 0 THEN -a ELSE a) ELSE GCD(b, a % b)

\* a / b on floats
FloatDiv(a, b) ==
    IF IsExc(a) THEN a
    ELSE IF IsExc(b) THEN b
    ELSE IF a.k = "nan" \/ b.k = "nan" THEN NaN
    ELSE IF b.k = "inf" THEN (IF a.k = "inf" THEN NaN ELSE Fin(0, 1))
    ELSE IF b.n = 0 THEN Raise("ZeroDivisionError")
    ELSE IF a.k = "inf" THEN Inf
    ELSE Fin(a.n * b.d, a.d * b.n)

\* a * (p / q) on floats, p / q a finite float
FloatMul(a, p, q) ==
    IF IsExc(a) \/ a.k = "nan" THEN a
    ELSE IF a.k = "inf" THEN (IF p = 0 THEN NaN ELSE Inf)
    ELSE LET g1 == GCD(a.n, q)
             g2 == GCD(p, a.d)
         IN  Fin((a.n \div g1) * (p \div g2), (a.d \div g2) * (q \div g1))

RECURSIVE IsPow2(_)
IsPow2(k) == k = 1 \/ (k > 1 /\ k % 2 = 0 /\ IsPow2(k \div 2))

\* the rational x is a binary fraction, so the float holds it exactly
IsDyadic(x) == x.k = "fin" /\ IsPow2(x.d \div GCD(x.n, x.d))

\* How an exact tie of the rational value rounds.  "even": the float is the exact
\* value and Python rounds half to even.  "down" / "up": the float is only the double
\* nearest to the value, which lies on either side of the tie.
Ties == {"even", "down", "up"}

\* the integer nearest to num / den (den > 0)
RoundDiv(num, den, tie) ==
    LET q == num \div den
        r == num - q * den
    IN  IF 2 * r < den THEN q
        ELSE IF 2 * r > den THEN q + 1
        ELSE IF tie = "up" \/ (tie = "even" /\ q % 2 = 1) THEN q + 1 ELSE q

\* round(x) of a float: an int, or an exception for inf and nan
round(x, tie) ==
    IF x.k = "inf" THEN Raise("OverflowError")
    ELSE IF x.k = "nan" THEN Raise("ValueError")
    ELSE [k |-> "int", n |-> RoundDiv(x.n, x.d, tie), d |-> 1]

\* round(x, ndigits) of a float: the float with ndigits decimals; inf and nan unchanged
round_to(x, ndigits, tie) ==
    IF x.k # "fin" THEN x
    ELSE LET g == GCD(Pow10(ndigits), x.d)
         IN  Fin(RoundDiv(x.n * (Pow10(ndigits) \div g), x.d \div g, tie), Pow10(ndigits))

\* x >= c and x < c for a float x and an integer c (both False for nan)
FloatGeq(x, c) == x.k = "inf" \/ (x.k = "fin" /\ x.n >= c * x.d)
FloatLess(x, c) == x.k = "fin" /\ x.n < c * x.d

(***************************************************************************)
(* UnitConverter                                                           *)
(***************************************************************************)
\* CONVERSIONS: <<unit, metric unit, factor in thousandths>>
CONVERSIONS ==
    << <<<<"c", "u", "p">>, <<"m", "l">>, 236588>>,
       <<<<"c", "u", "p", "s">>, <<"m", "l">>, 236588>>,
       <<<<"t", "a", "b", "l", "e", "s", "p", "o", "o", "n">>, <<"m", "l">>, 14787>>,
       <<<<"t", "a", "b", "l", "e", "s", "p", "o", "o", "n", "s">>, <<"m", "l">>, 14787>>,
       <<<<"t", "b", "s", "p">>, <<"m", "l">>, 14787>>,
       <<<<"t", "e", "a", "s", "p", "o", "o", "n">>, <<"m", "l">>, 4929>>,
       <<<<"t", "e", "a", "s", "p", "o", "o", "n", "s">>, <<"m", "l">>, 4929>>,
       <<<<"t", "s", "p">>, <<"m", "l">>, 4929>>,
       <<<<"f", "l", "u", "i", "d", " ", "o", "u", "n", "c", "e">>, <<"m", "l">>, 29574>>,
       <<<<"f", "l", "u", "i", "d", " ", "o", "u", "n", "c", "e", "s">>, <<"m", "l">>, 29574>>,
       <<<<"f", "l", " ", "o", "z">>, <<"m", "l">>, 29574>>,
       <<<<"p", "i", "n", "t">>, <<"m", "l">>, 473176>>,
       <<<<"p", "i", "n", "t", "s">>, <<"m", "l">>, 473176>>,
       <<<<"q", "u", "a", "r", "t">>, <<"l">>, 946>>,
       <<<<"q", "u", "a", "r", "t", "s">>, <<"l">>, 946>>,
       <<<<"g", "a", "l", "l", "o", "n">>, <<"l">>, 3785>>,
       <<<<"g", "a", "l", "l", "o", "n", "s">>, <<"l">>, 3785>>,
       <<<<"o", "u", "n", "c", "e">>, <<"g">>, 28350>>,
       <<<<"o", "u", "n", "c", "e", "s">>, <<"g">>, 28350>>,
       <<<<"o", "z">>, <<"g">>, 28350>>,
       <<<<"p", "o", "u", "n", "d">>, <<"g">>, 453592>>,
       <<<<"p", "o", "u", "n", "d", "s">>, <<"g">>, 453592>>,
       <<<<"l", "b">>, <<"g">>, 453592>>,
       <<<<"l", "b", "s">>, <<"g">>, 453592>>,
       <<<<"f", "a", "h", "r", "e", "n", "h", "e", "i", "t">>, <<"c", "e", "l", "s", "i", "u", "s">>, 0>>,
       <<<<"f">>, <<"c", "e", "l", "s", "i", "u", "s">>, 0>>,
       <<<<"deg", "f">>, <<"c", "e", "l", "s", "i", "u", "s">>, 0>> >>

InCONVERSIONS(u) == \E i \in 1..Len(CONVERSIONS) : CONVERSIONS[i][1] = u

LookupCONVERSIONS(u) ==
    CONVERSIONS[CHOOSE i \in 1..Len(CONVERSIONS) : CONVERSIONS[i][1] = u]

\* str.strip()
RECURSIVE lstrip(_)
lstrip(s) == IF s # <<>> /\ IsSpace(Head(s)) THEN lstrip(Tail(s)) ELSE s

RECURSIVE rstrip_space(_)
rstrip_space(s) ==
    IF s # <<>> /\ IsSpace(s[Len(s)]) THEN rstrip_space(SubSeq(s, 1, Len(s) - 1)) ELSE s

strip(s) == rstrip_space(lstrip(s))

convert_fraction_to_decimal(fraction_str) ==
    LET slash == IndexOf(fraction_str, "/", 1)
    IN  IF slash # 0
        THEN FloatDiv(float(SubSeq(fraction_str, 1, slash - 1)),
                      float(SubSeq(fraction_str, slash + 1, Len(fraction_str))))
        ELSE float(fraction_str)

\* round(fahrenheit * 5/9): the offset of the two scales left out
fahrenheit_to_celsius_no_offset(fahrenheit, tie) ==
    IF fahrenheit.k # "fin" THEN round(fahrenheit, tie)
    ELSE round(Fin(5 * fahrenheit.n, 9 * fahrenheit.d),
               IF IsDyadic(fahrenheit) THEN "even" ELSE tie)

\* round((fahrenheit - 32) * 5/9)
fahrenheit_to_celsius(fahrenheit, tie) ==
    IF fahrenheit.k # "fin" THEN round(fahrenheit, tie)
    ELSE round(Fin(5 * (fahrenheit.n - 32 * fahrenheit.d), 9 * fahrenheit.d),
               IF IsDyadic(fahrenheit) THEN "even" ELSE tie)

\* the units handled as temperatures
TEMPERATURE_UNITS ==
    { <<"f", "a", "h", "r", "e", "n", "h", "e", "i", "t">>, <<"f">>, <<"deg", "f">> }

\* the same branch rounding every unpromoted amount to the nearest integer
convert_with_factor_always_integer(metric_unit, converted, tie, promoted_digits) ==
    IF metric_unit = <<"m", "l">> /\ FloatGeq(converted, 1000)
    THEN [amount |-> round_to(FloatMul(converted, 1, 1000), promoted_digits, tie),
          unit |-> <<"l">>]
    ELSE IF metric_unit = <<"g">> /\ FloatGeq(converted, 1000)
    THEN [amount |-> round_to(FloatMul(converted, 1, 1000), promoted_digits, tie),
          unit |-> <<"k", "g">>]
    ELSE [amount |-> round(converted, tie), unit |-> metric_unit]

\* the branch "if unit_lower in self.CONVERSIONS" for converted = amount * factor,
\* the promoted amounts rounded to promoted_digits decimals
convert_with_factor(metric_unit, converted, tie, promoted_digits) ==
    IF metric_unit = <<"m", "l">> /\ FloatGeq(converted, 1000)
    THEN [amount |-> round_to(FloatMul(converted, 1, 1000), promoted_digits, tie),
          unit |-> <<"l">>]
    ELSE IF metric_unit = <<"g">> /\ FloatGeq(converted, 1000)
    THEN [amount |-> round_to(FloatMul(converted, 1, 1000), promoted_digits, tie),
          unit |-> <<"k", "g">>]
    ELSE IF FloatLess(converted, 10)
    THEN [amount |-> round_to(converted, 1, tie), unit |-> metric_unit]
    ELSE [amount |-> round(converted, tie), unit |-> metric_unit]

\* convert_measurement once unit_lower is computed; unknown is what the last line
\* returns as the unit
convert_unit_lower(amount, unit_lower, tie, promoted_digits, unknown) ==
    IF unit_lower \in TEMPERATURE_UNITS
    THEN [amount |-> fahrenheit_to_celsius(amount, tie), unit |-> <<"deg", "C">>]
    ELSE IF InCONVERSIONS(unit_lower)
    THEN convert_with_factor(LookupCONVERSIONS(unit_lower)[2],
                             FloatMul(amount, LookupCONVERSIONS(unit_lower)[3], 1000),
                             tie, promoted_digits)
    ELSE [amount |-> amount, unit |-> unknown]

\* convert_measurement returning unit_lower in its last line instead of unit
convert_measurement_lower_unknown(amount, unit, tie) ==
    convert_unit_lower(amount, strip(lower(unit)), tie, 2, strip(lower(unit)))

\* convert_measurement rounding the promoted amounts (l, kg) to 1 decimal
convert_measurement_promoted_1_decimal(amount, unit, tie) ==
    convert_unit_lower(amount, strip(lower(unit)), tie, 1, unit)

\* the pair convert_measurement returns, or the exception it raises (in amount.k)
convert_measurement(amount, unit, tie) ==
    convert_unit_lower(amount, strip(lower(unit)), tie, 2, unit)

\* f"{x}" for the int or float convert_measurement returned
RECURSIVE NatDigits(_)
NatDigits(n) ==
    IF n < 10 THEN <<DigitChar(n)>> ELSE NatDigits(n \div 10) \o <<DigitChar(n % 10)>>

str_int(n) == IF n < 0 THEN <<"-">> \o NatDigits(-n) ELSE NatDigits(n)

\* repr of a float that round(x, 1) or round(x, 2) produced: the shortest decimal
\* that reads back as the float, with at least one decimal
repr_float(x) ==
    CASE x.k = "inf" -> <<"i", "n", "f">>
      [] x.k = "nan" -> <<"n", "a", "n">>
      [] x.k = "fin" /\ x.d = 10 /\ x.n >= 0 ->
            NatDigits(x.n \div 10) \o <<".", DigitChar(x.n % 10)>>
      [] x.k = "fin" /\ x.d = 100 /\ x.n >= 0 ->
            NatDigits(x.n \div 100) \o <<".", DigitChar((x.n % 100) \div 10)>>
                \o (IF x.n % 10 = 0 THEN <<>> ELSE <<DigitChar(x.n % 10)>>)

format(x) == IF x.k = "int" THEN str_int(x.n) ELSE repr_float(x)

\* the try block of replace_measurement up to the return: the pair convert_measurement
\* returns, or the exception raised (in amount.k)
Converted(amount, unit, tie) ==
    IF IsExc(amount) THEN [amount |-> amount, unit |-> unit]
    ELSE convert_measurement(amount, unit, tie)

\* what replace_measurement does with cm: match.group(0) for the exceptions the except
\* clause catches, any other exception propagates, otherwise the text for_cm
Outcome(s, m, cm, for_cm) ==
    IF cm.amount.k \in {"ValueError", "ZeroDivisionError"}
    THEN [raised |-> "none", value |-> SubSeq(s, m.start, m.end - 1)]
    ELSE IF IsExc(cm.amount)
    THEN [raised |-> cm.amount.k, value |-> <<>>]
    ELSE [raised |-> "none", value |-> for_cm]

\* f"{converted_amount} {metric_unit} ({amount_str} {unit})"
Replacement(cm, amount_str, unit) ==
    format(cm.amount) \o <<" ">> \o cm.unit \o <<" ", "(">>
        \o amount_str \o <<" ">> \o unit \o <<")">>

\* f"{converted_amount} {metric_unit}": the parenthesised original left out
ReplacementNoEcho(cm, amount_str, unit) == format(cm.amount) \o <<" ">> \o cm.unit

ReplaceWith(s, m, cm) == Outcome(s, m, cm, Replacement(cm, m.g1, m.g2))

ReplaceWithNoEcho(s, m, cm) == Outcome(s, m, cm, ReplacementNoEcho(cm, m.g1, m.g2))

\* the unit echoed as convert_measurement normalises it (unit.lower().strip())
ReplaceWithLowerUnit(s, m, cm) ==
    Outcome(s, m, cm, Replacement(cm, m.g1, strip(lower(m.g2))))

replace_measurement_no_echo(s, m, tie) ==
    ReplaceWithNoEcho(s, m, Converted(convert_fraction_to_decimal(m.g1), m.g2, tie))

replace_measurement_lower_unit(s, m, tie) ==
    ReplaceWithLowerUnit(s, m, Converted(convert_fraction_to_decimal(m.g1), m.g2, tie))

\* what the pattern matched between group 1 and group 2, stripped: empty, or the
\* range "to B"
RangePart(s, m) == strip(SubSeq(s, m.start + Len(m.g1), m.end - Len(m.g2) - 1))

\* the upper bound B of a match "A to B <unit>", group 1 when the match has no range
UpperBound(s, m) ==
    IF RangePart(s, m) = <<>> THEN m.g1
    ELSE strip(SubSeq(RangePart(s, m), 3, Len(RangePart(s, m))))

\* replace_measurement converting the upper bound of a range instead of group 1
replace_measurement_upper_bound(s, m, tie) ==
    ReplaceWith(s, m, Converted(convert_fraction_to_decimal(UpperBound(s, m)), m.g2, tie))

\* replace_measurement for the match m: the replacement str, or the exception that
\* the except clause (ValueError, ZeroDivisionError) does not catch
replace_measurement(s, m, tie) ==
    ReplaceWith(s, m, Converted(convert_fraction_to_decimal(m.g1), m.g2, tie))

\* ups: the start positions of the matches whose inexact tie, if any, rounds up
TieAt(ups, m) == IF m.start \in ups THEN "up" ELSE "down"

\* the leftmost match of self.measurement_pattern at or after position i
\* (a match starts with a digit, so only the digits at or after i are tried, in order)
RECURSIVE measurement_search(_, _)
OrSearchAfter(m, s, j) == IF m.found THEN m ELSE measurement_search(s, j + 1)

SearchAt(s, j) == IF j = 0 THEN NoMatch ELSE OrSearchAfter(measurement_pattern(s, j), s, j)

measurement_search(s, i) == SearchAt(s, MinOrZero({j \in i..Len(s) : IsDigit(s[j])}))

\* the text before a match, its replacement and the rest of the substitution; an
\* exception of the replacement function ends the substitution
Joined(before, repl, rest) ==
    IF repl.raised # "none" THEN repl
    ELSE IF rest.raised # "none" THEN rest
    ELSE [raised |-> "none", value |-> before \o repl.value \o rest.value]

\* self.measurement_pattern.sub(replace_measurement, text), scanning from position i:
\* the text up to the next match is copied, the match is replaced, the scan resumes
\* after the match (a match is never empty)
RECURSIVE pattern_sub(_, _, _)
SubFrom(s, i, ups, m) ==
    IF ~m.found THEN [raised |-> "none", value |-> SubSeq(s, i, Len(s))]
    ELSE Joined(SubSeq(s, i, m.start - 1), replace_measurement(s, m, TieAt(ups, m)),
                pattern_sub(s, m.end, ups))

pattern_sub(s, i, ups) == SubFrom(s, i, ups, measurement_search(s, i))

\* convert_text scanning its own output once more
Rescanned(first) ==
    IF first.raised # "none" THEN first ELSE pattern_sub(first.value, 1, {})

convert_text_rescan(s, ups) == Rescanned(pattern_sub(s, 1, ups))

\* convert_text substituting in text.strip() instead of text
convert_text_strip(s, ups) == pattern_sub(strip(s), 1, ups)

convert_text(s, ups) == pattern_sub(s, 1, ups)

(***************************************************************************)
(* get_shopping_list.scale_ingredient                                      *)
(***************************************************************************)
\* str.rstrip(c) for a single character c
rstrip(str, c) ==
    LET keep == {t \in 1..Len(str) : str[t] # c}
    IN  IF keep = {} THEN <<>>
        ELSE SubSeq(str, 1, CHOOSE t \in keep : \A u \in keep : u <= t)

\* f"{x:.1f}" for a finite float x >= 0
format_1f(x, tie) ==
    LET tenths == round_to(x, 1, tie).n
    IN  NatDigits(tenths \div 10) \o <<".", DigitChar(tenths % 10)>>

\* r'\d+\.?\d*(?:/\d+)?' tried at position i: every part after \d+ is optional and
\* nothing follows, so the greedy choice at each part is the match
AfterPoint(s, e) == IF e <= Len(s) /\ s[e] = "." THEN e + 1 ELSE e

AfterDigits(s, e) == e + DigitRun(s, e)

AfterFraction(s, e) ==
    IF e <= Len(s) /\ s[e] = "/" /\ DigitRun(s, e + 1) > 0 THEN AfterDigits(s, e + 1) ELSE e

NumberMatch(s, i, e) ==
    [found |-> TRUE, start |-> i, end |-> e, g1 |-> SubSeq(s, i, e - 1), g2 |-> <<>>]

number_pattern(s, i) ==
    IF i <= Len(s) /\ DigitRun(s, i) > 0
    THEN NumberMatch(s, i, AfterFraction(s, AfterDigits(s, AfterPoint(s, AfterDigits(s, i)))))
    ELSE NoMatch

\* the leftmost match of the number pattern at or after position i
NumberAt(s, j) == IF j = 0 THEN NoMatch ELSE number_pattern(s, j)

number_search(s, i) == NumberAt(s, MinOrZero({j \in i..Len(s) : IsDigit(s[j])}))

\* the try block of scale_match up to "scaled = num * scale": a float or the exception
split_and_divide(num_str, slash) ==
    IF slash # 0
    THEN FloatDiv(float(SubSeq(num_str, 1, slash - 1)),
                  float(SubSeq(num_str, slash + 1, Len(num_str))))
    ELSE float(num_str)

parse_num(num_str) == split_and_divide(num_str, IndexOf(num_str, "/", 1))

\* the same without the fraction branch: float("a/b") raises ValueError
parse_num_no_fraction(num_str) ==
    IF IndexOf(num_str, "/", 1) # 0 THEN Raise("ValueError") ELSE float(num_str)

\* the tie of f"{scaled:.1f}": half to even when the product is exact
FormatTie(num, sc, tie) ==
    IF IsDyadic(num) /\ IsDyadic(Fin(sc[1], sc[2])) THEN "even" ELSE tie

\* the rest of scale_match; failed is what the bare except returns
Formatted(num, scaled, sc, tie, failed) ==
    IF IsExc(num) THEN failed
    ELSE IF scaled.k # "fin" THEN failed               \* int(inf), int(nan) raise
    ELSE IF scaled.n % scaled.d = 0 THEN str_int(scaled.n \div scaled.d)
    ELSE rstrip(rstrip(format_1f(scaled, FormatTie(num, sc, tie)), "0"), ".")

ScaleNum(num, sc, tie, failed) ==
    Formatted(num, FloatMul(num, sc[1], sc[2]), sc, tie, failed)

scale_match_no_fraction(num_str, sc, tie) ==
    ScaleNum(parse_num_no_fraction(num_str), sc, tie, num_str)

\* scale_match whose except clause returns '' instead of the token
scale_match_drop_token(num_str, sc, tie) == ScaleNum(parse_num(num_str), sc, tie, <<>>)

\* scale_match: the replacement of one token; the bare except returns the token
scale_match(num_str, sc, tie) == ScaleNum(parse_num(num_str), sc, tie, num_str)

\* re.sub(r'\d+\.?\d*(?:/\d+)?', scale_match, ingredient), scanning from position i
RECURSIVE number_sub(_, _, _, _)
NumberSubFrom(s, i, sc, ups, m) ==
    IF ~m.found THEN SubSeq(s, i, Len(s))
    ELSE SubSeq(s, i, m.start - 1) \o scale_match(m.g1, sc, TieAt(ups, m))
             \o number_sub(s, m.end, sc, ups)

number_sub(s, i, sc, ups) == NumberSubFrom(s, i, sc, ups, number_search(s, i))

\* scale_ingredient without the "if scale == 1" return
scale_ingredient_no_fast_path(ingredient, sc, ups) == number_sub(ingredient, 1, sc, ups)

\* scale_ingredient substituting in ingredient.strip() instead of ingredient
scale_ingredient_strip(ingredient, sc, ups) ==
    IF sc[1] = sc[2] THEN ingredient
    ELSE number_sub(strip(ingredient), 1, sc, ups)

scale_ingredient(ingredient, sc, ups) ==
    IF sc[1] = sc[2] THEN ingredient
    ELSE number_sub(ingredient, 1, sc, ups)

(***************************************************************************)
(* The matches one call replaces, in order, and the inexact ties among them *)
(***************************************************************************)
RECURSIVE measurement_matches(_, _)
MatchesFrom(s, m) == IF ~m.found THEN <<>> ELSE <<m>> \o measurement_matches(s, m.end)

measurement_matches(s, i) == MatchesFrom(s, measurement_search(s, i))

RECURSIVE number_matches(_, _)
NumberMatchesFrom(s, m) == IF ~m.found THEN <<>> ELSE <<m>> \o number_matches(s, m.end)

number_matches(s, i) == NumberMatchesFrom(s, number_search(s, i))

\* the matches of convert_text whose replacement depends on how a tie rounds
ConvertTiesOf(s, ms) ==
    {ms[x].start : x \in {y \in 1..Len(ms) :
        replace_measurement(s, ms[y], "up") # replace_measurement(s, ms[y], "down")}}

ConvertTies(s) == ConvertTiesOf(s, measurement_matches(s, 1))

\* the matches of scale_ingredient whose replacement depends on how a tie rounds
ScaleTiesOf(ms, sc) ==
    {ms[x].start : x \in {y \in 1..Len(ms) :
        scale_match(ms[y].g1, sc, "up") # scale_match(ms[y].g1, sc, "down")}}

ScaleTies(s, sc) == ScaleTiesOf(number_matches(s, 1), sc)

(***************************************************************************)
(* Inputs                                                                  *)
(***************************************************************************)
\* texts are built from at most MaxPieces pieces
MaxPieces == 4

TextsOf(pieces, n) == {Flatten(ps) : ps \in UNION {[1..k -> pieces] : k \in 0..n}}

\* every text of at most MaxPieces of these pieces is an input of convert_text
ConvertPieces ==
    { <<"1">>, <<"0">>, <<"/">>, <<" ">>, <<"t", "o">>, <<"c", "u", "p">>, <<"s">> }

\* a str of digits too long for a double: float() returns inf
BigNum == [i \in 1..(FloatMaxDigits + 1) |-> "9"]

Spaces(n) == [i \in 1..n |-> " "]

\* measurement phrases: an amount, what separates it from the unit, a unit word
PhraseAmounts ==
    { <<"2">>, <<"0">>, <<"1", "/", "2">>, <<"1", "/", "0">>, <<"1", ".", "5">>, <<"1", "2">> }

PhraseGaps ==
    { <<>>, <<" ">>, Spaces(8), Spaces(9), <<" ", "t", "o", " ", "3", " ">>,
      <<" ", "t", "o", " ", "2", "0", "0", "0", " ">> }

PhraseUnits ==
    { <<"c", "u", "p", "s">>, <<"C", "u", "p">>, <<"o", "z">>, <<"F">>, <<"deg", "F">>,
      <<"q", "u", "a", "r", "t">>, <<"f", "l", " ", "o", "z">>,
      <<"c", "u", "p", "b", "o", "a", "r", "d">> }

Phrases == {a \o g \o u : a \in PhraseAmounts, g \in PhraseGaps, u \in PhraseUnits}

\* a phrase next to a second measurement, before or after it
PhraseNeighbours ==
    { <<"2", " ", "c", "u", "p", "s">>, <<"1", "/", "0", " ", "c", "u", "p">> }

PhrasePairs ==
    {n \o <<",", " ">> \o p : n \in PhraseNeighbours, p \in Phrases}
        \cup {p \o <<" ">> \o n : n \in PhraseNeighbours, p \in Phrases}

\* amounts beyond the range of a double
BigTexts ==
    { BigNum \o <<" ", "F">>,
      BigNum \o <<" ", "c", "u", "p">>,
      BigNum \o <<" ", "q", "u", "a", "r", "t">>,
      BigNum \o <<" ", "o", "z">>,
      BigNum \o <<"/">> \o BigNum \o <<" ", "F">>,
      <<"1", "/">> \o BigNum \o <<" ", "c", "u", "p">>,
      <<"1", "/", "0", " ", "c", "u", "p", " ">> \o BigNum \o <<" ", "F">>,
      <<"2", " ", "c", "u", "p", "s", " ">> \o BigNum \o <<" ", "g", "a", "l", "l", "o", "n">> }

\* the amount 0 with every unit of the lexicon
ZeroPhrases == {<<"0", " ">> \o UNIT_ALTERNATIVES[i] : i \in 1..Len(UNIT_ALTERNATIVES)}

\* units inside longer words, glued to word characters, and next to punctuation
WordExamples ==
    { <<"2", " ", "c", "u", "p", "b", "o", "a", "r", "d", "s">>,
      <<"4", " ", "f", "r", "i", "e", "n", "d", "s">>,
      <<"3", " ", "o", "z", "o", "n", "e">>,
      <<"2", " ", "c", "u", "p", "s", "_", "x">>,
      <<"x", "2", " ", "c", "u", "p", "s">>,
      <<"2", " ", "c", "u", "p", "s", "-", "w", "o", "r", "t", "h">>,
      <<"1", " ", "t", "o", " ", "3", "c", "u", "p", "s">>,
      <<"2", " ", "x", "c", "u", "p", "s">>,
      <<"2", "_", "c", "u", "p", "s">>,
      <<"5", " ", "l", "b", "s", "3">>,
      <<"2", " ", "f", "l", " ", "o", "z", "o", "n", "e">> }

ConvertInputs ==
    TextsOf(ConvertPieces, MaxPieces) \cup Phrases \cup PhrasePairs \cup BigTexts
        \cup ZeroPhrases \cup WordExamples

\* every text of at most MaxPieces of these pieces is an input of scale_ingredient
ScalePieces ==
    { <<"1">>, <<"2">>, <<"0">>, <<"/">>, <<".">>, <<" ">>, <<"c", "u", "p">> }

\* ingredient lines of the documentation and of the edge cases it names
ScaleExamples ==
    { <<"1", "/", "2", " ", "c", "u", "p", " ", "s", "u", "g", "a", "r">>,
      <<"a", " ", "p", "i", "n", "c", "h", " ", "o", "f", " ", "s", "a", "l", "t">>,
      <<"1", "/", "0", " ", "2">>,
      <<"2", " ", "1", "/", "0", " ", "c", "u", "p", "s">>,
      <<"1", ".", "5", " ", "(", "o", "r", " ", "1", "/", "0", "0", ")", ",", " ", "3">>,
      <<"s", "t", "i", "r", " ", "i", "n", " ", "2", ".">>,
      <<"0", ".", "7", " ", "l", ",", " ", "0", ".", "2", "5", " ", "l">>,
      BigNum \o <<" ", "g">>,
      <<"1", "/", "0", " ">> \o BigNum \o <<" ", "2">> }

ScaleInputs == TextsOf(ScalePieces, MaxPieces) \cup ScaleExamples

\* scale = pr.servings / recipe_servings
Scales == { <<0, 1>>, <<1, 2>>, <<1, 1>>, <<2, 2>>, <<3, 2>>, <<2, 1>>, <<3, 1>>, <<1, 3>> }

(***************************************************************************)
(* The calls                                                               *)
(***************************************************************************)
NoResult == [raised |-> "none", value |-> <<>>]

InitConvert ==
    /\ pc = "ready"
    /\ text \in ConvertInputs
    /\ quantity = Fin(0, 1)
    /\ scale = <<1, 1>>
    /\ result = NoResult

\* UnitConverter().convert_text(text)
ConvertText ==
    /\ pc = "ready"
    /\ \E ups \in SUBSET ConvertTies(text) : result' = convert_text(text, ups)
    /\ pc' = "done"
    /\ UNCHANGED <<text, quantity, scale>>

NextConvert == ConvertText

SpecConvert == InitConvert /\ [][NextConvert]_vars

InitScale ==
    /\ pc = "ready"
    /\ text \in ScaleInputs
    /\ quantity = Fin(0, 1)
    /\ scale \in Scales
    /\ result = NoResult

\* scale_ingredient(text, scale)
ScaleIngredient ==
    /\ pc = "ready"
    /\ \E ups \in SUBSET ScaleTies(text, scale) :
           result' = [raised |-> "none", value |-> scale_ingredient(text, scale, ups)]
    /\ pc' = "done"
    /\ UNCHANGED <<text, quantity, scale>>

NextScale == ScaleIngredient

SpecScale == InitScale /\ [][NextScale]_vars

(***************************************************************************)
(* Direct calls of convert_measurement                                     *)
(***************************************************************************)
\* amounts n / d with n up to MaxAmount, and the amounts around the thresholds
MaxAmount == 12

AmountNumerators ==
    (0..MaxAmount) \cup {31, 32, 33, 35, 36, 40, 55, 73, 100, 212, 338, 350, 676, 1000}

MeasureAmounts ==
    {Fin(n, d) : n \in AmountNumerators, d \in {1, 2, 3, 10}}
        \cup {Fin(-40, 1), Fin(-1, 2), Inf, NaN}

\* the units of the lexicon as written in it, in other letter cases and with white
\* space around them, and units that are not in the lexicon
MeasureUnits ==
    {UNIT_ALTERNATIVES[i] : i \in 1..Len(UNIT_ALTERNATIVES)}
        \cup { <<"C", "U", "P", "S">>, <<"C", "u", "p">>, <<" ", "c", "u", "p", "s", " ">>,
               <<"O", "Z">>, <<"L", "b", "s">>, <<"F">>, <<"deg", "F">>,
               <<"F", "a", "h", "r", "e", "n", "h", "e", "i", "t">>, <<"Q", "u", "a", "r", "t">> }
        \cup { <<"s", "t", "o", "n", "e">>, <<" ", "S", "t", "o", "n", "e">>, <<"m", "l">>,
               <<"k", "g">>, <<>>, <<"c", "u", "p", "z">>, <<"deg">>, <<"deg", "C">>,
               <<"c", "e", "l", "s", "i", "u", "s">> }

InitMeasure ==
    /\ pc = "ready"
    /\ text \in MeasureUnits
    /\ quantity \in MeasureAmounts
    /\ scale = <<1, 1>>
    /\ result = NoResult

\* the pair cm as the outcome of the call: returned, or the exception in cm.amount.k
Returned(cm) ==
    IF IsExc(cm.amount) THEN [raised |-> cm.amount.k, value |-> <<>>]
    ELSE [raised |-> "none", value |-> cm]

\* UnitConverter().convert_measurement(quantity, text); tie is the side on which an
\* inexact product falls when it is a tie of the rounding
ConvertMeasurement ==
    /\ pc = "ready"
    /\ \E tie \in {"down", "up"} : result' = Returned(convert_measurement(quantity, text, tie))
    /\ pc' = "done"
    /\ UNCHANGED <<text, quantity, scale>>

NextMeasure == ConvertMeasurement

SpecMeasure == InitMeasure /\ [][NextMeasure]_vars

(***************************************************************************)
(* recipe_scraper.parse_iso_duration                                       *)
(***************************************************************************)
\* duration.startswith('PT')
startswith_PT(duration) ==
    Len(duration) >= 2 /\ duration[1] = "P" /\ duration[2] = "T"

\* re.search(r'(\d+)H', duration), or with M for H: the start of the leftmost match,
\* 0 when there is none.  \d+ takes the whole run of digits from its start, and a
\* shorter run is followed by a digit, so the match is the first run of digits that
\* the letter follows
designator_search(duration, letter) ==
    MinOrZero({i \in 1..Len(duration) :
                  /\ IsDigit(duration[i])
                  /\ i + DigitRun(duration, i) <= Len(duration)
                  /\ duration[i + DigitRun(duration, i)] = letter})

\* int(match.group(1)) for the match that starts at position at, the initial 0 when
\* there is no match
designator_count(duration, at) ==
    IF at = 0 THEN 0
    ELSE IntVal(SubSeq(duration, at, at + DigitRun(duration, at) - 1), 0)

\* f"{count} {word}{'s' if count > 1 else ''}", appended when count > 0
part(count, word) ==
    IF count > 0
    THEN << str_int(count) \o <<" ">> \o word \o (IF count > 1 THEN <<"s">> ELSE <<>>) >>
    ELSE <<>>

\* sep.join(parts)
RECURSIVE join(_, _)
join(sep, parts) ==
    IF parts = <<>> THEN <<>>
    ELSE IF Len(parts) = 1 THEN parts[1]
    ELSE parts[1] \o sep \o join(sep, Tail(parts))

\* ' '.join(parts) if parts else duration
join_or_duration(parts, duration) ==
    IF parts # <<>> THEN join(<<" ">>, parts) ELSE duration

\* parse_iso_duration after the prefix is removed
format_duration(duration) ==
    join_or_duration(
        part(designator_count(duration, designator_search(duration, "H")),
             <<"h", "o", "u", "r">>)
          \o part(designator_count(duration, designator_search(duration, "M")),
                  <<"m", "i", "n", "u", "t", "e">>),
        duration)

\* parse_iso_duration without the test of the prefix
parse_iso_duration_no_prefix_test(duration) ==
    format_duration(SubSeq(duration, 3, Len(duration)))

parse_iso_duration(duration) ==
    IF duration = <<>> \/ ~startswith_PT(duration) THEN duration
    ELSE format_duration(SubSeq(duration, 3, Len(duration)))

\* every text of at most MaxPieces of these pieces is an input of parse_iso_duration
DurationPieces ==
    { <<"P", "T">>, <<"P">>, <<"0">>, <<"1">>, <<"2">>, <<"H">>, <<"M">>, <<"S">> }

\* the counts of the durations with both parts
DurationCounts == { <<"0">>, <<"1">>, <<"2">>, <<"0", "1">>, <<"3", "0">>, <<"4", "5">> }

TwoPartDurations ==
    {<<"P", "T">> \o h \o <<"H">> \o m \o <<"M">> : h \in DurationCounts, m \in DurationCounts}

\* the examples of the documentation, inputs that are not ISO durations, and parts
\* in another order, with the count 0 and with seconds
DurationExamples ==
    { <<"P", "T", "1", "H", "3", "0", "M">>,
      <<"P", "T", "4", "5", "M">>,
      <<"n", "o", "t", " ", "a", " ", "d", "u", "r", "a", "t", "i", "o", "n">>,
      <<"P", "1", "D", "T", "2", "H">>,
      <<"P", "T", "3", "0", "S">>,
      <<"P", "T", "1", "H", "3", "0", "M", "1", "5", "S">>,
      <<"P", "T", "5", "M", "1", "H">>,
      <<"P", "T", "1", ".", "5", "H">>,
      <<"p", "t", "5", "M">>,
      <<"P", "T", " ", "1", "H">>,
      <<"1", "H", " ", "P", "T", "2", "M">>,
      <<"P", "T", "1", "H", "M">>,
      <<"P", "T", "H", "5", "M">>,
      <<"P", "T", "3", "0", "M", "1", "H">>,
      <<"P", "T", "1", "5", "S", "5", "M">>,
      <<"P", "T", "0", "M", "2", "H">>,
      <<"P", "T", "1", "H", "0", "M", "3", "0", "S">>,
      <<"P", "T", "0", "H", "0", "M">>,
      <<"P", "T", "0", "H", "3", "0", "S">>,
      <<"P", "T", "2", "M", "1", "S", "0", "H">> }

DurationInputs ==
    TextsOf(DurationPieces, MaxPieces) \cup TwoPartDurations \cup DurationExamples

InitDuration ==
    /\ pc = "ready"
    /\ text \in DurationInputs
    /\ quantity = Fin(0, 1)
    /\ scale = <<1, 1>>
    /\ result = NoResult

\* parse_iso_duration(text)
ParseIsoDuration ==
    /\ pc = "ready"
    /\ result' = [raised |-> "none", value |-> parse_iso_duration(text)]
    /\ pc' = "done"
    /\ UNCHANGED <<text, quantity, scale>>

NextDuration == ParseIsoDuration

SpecDuration == InitDuration /\ [][NextDuration]_vars

(***************************************************************************)
(* get_shopping_list: the scale factor and the entry of one planned recipe *)
(***************************************************************************)
\* re.search(r'\d+', str(pr.recipe.servings)): the start of the match, 0 when none
servings_search(servings) == MinOrZero({j \in 1..Len(servings) : IsDigit(servings[j])})

\* recipe_servings reading only the first digit of the match
recipe_servings_first_digit(servings, at) ==
    IF servings = <<>> \/ at = 0 THEN 1 ELSE DigitVal(servings[at])

\* recipe_servings: 1, or int(match.group(0)) when the servings are not empty and
\* the search finds a match at position at
recipe_servings_at(servings, at) ==
    IF servings = <<>> \/ at = 0 THEN 1
    ELSE IntVal(SubSeq(servings, at, at + DigitRun(servings, at) - 1), 0)

recipe_servings(servings) == recipe_servings_at(servings, servings_search(servings))

\* scale = pr.servings / recipe_servings if recipe_servings > 0 else 1, as the pair
\* <<numerator, denominator>>
scale_factor(planned, base) == IF base > 0 THEN <<planned, base>> ELSE <<1, 1>>

\* f"{title} ({pr.servings} servings)" if pr.servings != recipe_servings else title
recipe_label(title, planned, base) ==
    IF planned # base
    THEN title \o <<" ", "(">> \o str_int(planned)
             \o <<" ", "s", "e", "r", "v", "i", "n", "g", "s", ")">>
    ELSE title

\* the title and the ingredient of the planned recipe
Title == <<"P", "i", "e">>
Ingredient == <<"2", " ", "c", "u", "p", "s", " ", "f", "l", "o", "u", "r">>

\* the dict appended to shopping_list, with the local recipe_servings
shopping_entry(planned, base, sc, ups) ==
    [recipe_servings |-> base,
     recipe |-> recipe_label(Title, planned, base),
     ingredients |-> <<scale_ingredient(Ingredient, sc, ups)>>]

\* planned servings from 0 to MaxServings
MaxServings == 4

ServingsPieces == { <<"0">>, <<"1">>, <<"2">>, <<" ">>, <<"s">> }

ServingsExamples ==
    { <<"4", " ", "s", "e", "r", "v", "i", "n", "g", "s">>,
      <<"S", "e", "r", "v", "e", "s", " ", "4", "-", "6">>,
      <<"m", "a", "k", "e", "s", " ", "1", "2">>,
      <<"a", " ", "f", "e", "w">>,
      <<"0", "4">>,
      <<"0", " ", "s", "e", "r", "v", "i", "n", "g", "s">>,
      <<"1", "/", "2", " ", "d", "o", "z", "e", "n">>,
      <<"1", "0">>,
      <<"s", "e", "r", "v", "e", "s", " ", "0", " ", "t", "o", " ", "2">> }

ServingsInputs == TextsOf(ServingsPieces, MaxPieces) \cup ServingsExamples

InitShopping ==
    /\ pc = "ready"
    /\ text \in ServingsInputs
    /\ quantity \in {[k |-> "int", n |-> p, d |-> 1] : p \in 0..MaxServings}
    /\ scale = <<1, 1>>
    /\ result = NoResult

\* one turn of the loop of get_shopping_list, for a planned recipe whose servings
\* are text and whose planned servings are quantity
ShoppingEntry ==
    /\ pc = "ready"
    /\ scale' = scale_factor(quantity.n, recipe_servings(text))
    /\ \E ups \in SUBSET ScaleTies(Ingredient, scale') :
           result' = [raised |-> "none",
                      value |-> shopping_entry(quantity.n, recipe_servings(text), scale', ups)]
    /\ pc' = "done"
    /\ UNCHANGED <<text, quantity>>

NextShopping == ShoppingEntry

SpecShopping == InitShopping /\ [][NextShopping]_vars

(***************************************************************************)
(* Properties of convert_text, checked under SpecConvert                   *)
(***************************************************************************)
Done == pc = "done"

\* the text of s with the i-th match of ms replaced by rs[i], all else copied
Interleave(s, ms, rs) ==
    Flatten([i \in 1..Len(ms) |->
                SubSeq(s, IF i = 1 THEN 1 ELSE ms[i - 1].end, ms[i].start - 1) \o rs[i]])
        \o SubSeq(s, IF ms = <<>> THEN 1 ELSE ms[Len(ms)].end, Len(s))

\* the characters of the input that the match m covers
Span(s, m) == SubSeq(s, m.start, m.end - 1)
AmountText(s, m) == SubSeq(s, m.start, m.start + Len(m.g1) - 1)
UnitText(s, m) == SubSeq(s, m.end - Len(m.g2), m.end - 1)

\* the amount is a fraction whose denominator is zero
ZeroDenominator(amount_str) ==
    LET slash == IndexOf(amount_str, "/", 1)
        den == float(SubSeq(amount_str, slash + 1, Len(amount_str)))
    IN  slash # 0 /\ den.k = "fin" /\ den.n = 0

\* the conversion of the match m has a value (no exception is raised for it)
HasConversion(s, m) ==
    LET amount == convert_fraction_to_decimal(AmountText(s, m))
    IN  ~IsExc(amount) /\ ~IsExc(convert_measurement(amount, UnitText(s, m), "down").amount)

MetricUnits == { <<"m", "l">>, <<"l">>, <<"g">>, <<"k", "g">>, <<"deg", "C">> }

\* "<converted> <metric unit> (<amount text> <unit text>)" for the match m
ConversionText(s, m, tie) ==
    LET cm == convert_measurement(convert_fraction_to_decimal(AmountText(s, m)),
                                  UnitText(s, m), tie)
    IN  format(cm.amount) \o <<" ">> \o cm.unit \o <<" ", "(">>
            \o AmountText(s, m) \o <<" ">> \o UnitText(s, m) \o <<")">>

\* C1: convert_text never raises: every call returns a str
C1_NeverRaises == Done => result.raised = "none"

\* C2: when a match has a zero denominator, the call returns, that match is emitted
\* unchanged and every other match is replaced by its conversion
C2_FailOpen ==
    LET ms == measurement_matches(text, 1)
    IN  (Done /\ \E i \in 1..Len(ms) : ZeroDenominator(ms[i].g1)) =>
            /\ result.raised = "none"
            /\ \E ups \in SUBSET ConvertTies(text) :
                   result.value = Interleave(text, ms,
                       [i \in 1..Len(ms) |->
                           IF ZeroDenominator(ms[i].g1) THEN Span(text, ms[i])
                           ELSE ConversionText(text, ms[i], TieAt(ups, ms[i]))])

\* the same with the calls that raise left out: the zero denominator itself is handled
C2_FailOpenWhenReturning ==
    (Done /\ result.raised = "none") => C2_FailOpen

\* C3: a text in which the pattern matches nowhere is returned unchanged
C3_NoMatchUnchanged ==
    (Done /\ \A i \in 1..Len(text) : ~measurement_pattern(text, i).found) =>
        result = [raised |-> "none", value |-> text]

C3_Witness ==
    /\ Done
    /\ \A i \in 1..Len(text) : ~measurement_pattern(text, i).found
    /\ \E i \in 1..Len(text) : IsDigit(text[i])
    /\ \E i \in 1..Len(text) : LiteralAt(text, i, <<"c", "u", "p">>)
    /\ result.value = text

\* what separates the amount of the match m from its unit: white space and the range
GapLen(m) == (m.end - m.start) - Len(m.g1) - Len(m.g2)

\* C4 as stated: the returned str is at least as long as the input
C4_NeverShorter == (Done /\ result.raised = "none") => Len(result.value) >= Len(text)

\* C4 amended: the returned str is at least as long as the input when no match has
\* more than 8 characters between its amount and its unit
C4_NeverShorterShortGaps ==
    LET ms == measurement_matches(text, 1)
    IN  (Done /\ result.raised = "none" /\ \A i \in 1..Len(ms) : GapLen(ms[i]) <= 8) =>
            Len(result.value) >= Len(text)

C4_Witness ==
    LET ms == measurement_matches(text, 1)
    IN  /\ Done /\ result.raised = "none"
        /\ \E i \in 1..Len(ms) : GapLen(ms[i]) = 8 /\ HasConversion(text, ms[i])
        /\ Len(result.value) = Len(text)

\* C5: every converted match is replaced by "<converted> <metric unit> (<amount text>
\* <unit text>)", the amount and the unit being the characters of the input
C5_Auditable ==
    LET ms == measurement_matches(text, 1)
    IN  (Done /\ result.raised = "none") =>
            /\ \A i \in 1..Len(ms) : HasConversion(text, ms[i]) =>
                   convert_measurement(convert_fraction_to_decimal(ms[i].g1),
                                       ms[i].g2, "down").unit \in MetricUnits
            /\ \E ups \in SUBSET ConvertTies(text) :
                   result.value = Interleave(text, ms,
                       [i \in 1..Len(ms) |->
                           IF HasConversion(text, ms[i])
                           THEN ConversionText(text, ms[i], TieAt(ups, ms[i]))
                           ELSE Span(text, ms[i])])

C5_Witness ==
    LET ms == measurement_matches(text, 1)
    IN  /\ Done /\ result.raised = "none"
        /\ \E i \in 1..Len(ms) :
              /\ HasConversion(text, ms[i])
              /\ IndexOf(ms[i].g1, "/", 1) # 0
              /\ ms[i].g2 # lower(ms[i].g2)
              /\ GapLen(ms[i]) > 1

(***************************************************************************)
(* Properties of scale_ingredient, checked under SpecScale                 *)
(***************************************************************************)
ScaleIsOne == scale[1] = scale[2]

\* the value of a token: a/b is a divided by b, any other token its decimal number
TokenValue(tok) ==
    LET slash == IndexOf(tok, "/", 1)
    IN  IF slash = 0 THEN float(tok)
        ELSE FloatDiv(float(SubSeq(tok, 1, slash - 1)),
                      float(SubSeq(tok, slash + 1, Len(tok))))

\* the token has a finite value
Evaluable(tok) == TokenValue(tok).k = "fin"

\* the text emitted for an evaluable token: the integer when value * scale is whole,
\* otherwise one decimal place, a trailing zero (and then a trailing point) stripped
Emitted(tok, sc, tie) ==
    LET v == TokenValue(tok)
        scaled == FloatMul(v, sc[1], sc[2])
        tenths == round_to(scaled, 1, IF IsDyadic(v) /\ IsDyadic(Fin(sc[1], sc[2]))
                                      THEN "even" ELSE tie).n
    IN  IF scaled.n % scaled.d = 0 THEN NatDigits(scaled.n \div scaled.d)
        ELSE IF tenths % 10 = 0 THEN NatDigits(tenths \div 10)
        ELSE NatDigits(tenths \div 10) \o <<".", DigitChar(tenths % 10)>>

\* the evaluable tokens whose emitted text depends on how a tie rounds
EmittedTies(s, sc) ==
    LET ms == number_matches(s, 1)
    IN  {ms[x].start : x \in {y \in 1..Len(ms) :
            Evaluable(ms[y].g1) /\ Emitted(ms[y].g1, sc, "up") # Emitted(ms[y].g1, sc, "down")}}

\* the ingredient with every evaluable token replaced by its emitted text and every
\* other token left as written
ScaledText(s, sc, ups) ==
    LET ms == number_matches(s, 1)
    IN  Interleave(s, ms, [i \in 1..Len(ms) |->
            IF Evaluable(ms[i].g1) THEN Emitted(ms[i].g1, sc, TieAt(ups, ms[i]))
            ELSE ms[i].g1])

\* C6: with scale 1 the ingredient is returned unchanged
C6_ScaleOneIdentity == (Done /\ ScaleIsOne) => result.value = text

C6_Witness ==
    LET ms == number_matches(text, 1)
    IN  /\ Done /\ ScaleIsOne
        /\ \E i \in 1..Len(ms) :
              Evaluable(ms[i].g1) /\ Emitted(ms[i].g1, scale, "down") # ms[i].g1
        /\ result.value = text

\* the characters of s that are not a digit, a decimal point between digits or a
\* slash between digits, in order
NonNumeric(s) ==
    LET between(i) == i > 1 /\ i < Len(s) /\ IsDigit(s[i - 1]) /\ IsDigit(s[i + 1])
        keep == {i \in 1..Len(s) : ~IsDigit(s[i]) /\ ~(s[i] \in {".", "/"} /\ between(i))}
        rank(i) == Cardinality({j \in keep : j <= i})
    IN  [k \in 1..Cardinality(keep) |-> s[CHOOSE i \in keep : rank(i) = k]]

\* C7: the non-numeric characters of the ingredient are the non-numeric characters of
\* the returned str, in the same order
C7_OnlyTokensChange == Done => NonNumeric(result.value) = NonNumeric(text)

\* C8: an ingredient without a digit is returned unchanged, whatever the scale
C8_NoDigitUnchanged ==
    (Done /\ \A i \in 1..Len(text) : ~IsDigit(text[i])) => result.value = text

C8_Witness ==
    /\ Done /\ ~ScaleIsOne
    /\ text # <<>>
    /\ \A i \in 1..Len(text) : ~IsDigit(text[i])
    /\ \E i \in 1..Len(text) : text[i] \in {".", "/"}
    /\ result.value = text

AllEvaluable(s) ==
    LET ms == number_matches(s, 1)
    IN  \A i \in 1..Len(ms) : Evaluable(ms[i].g1)

\* C9 as stated: for every scale, each token is replaced by the text emitted for its
\* value times scale
C9_PerToken ==
    (Done /\ AllEvaluable(text)) =>
        \E ups \in SUBSET EmittedTies(text, scale) :
            result.value = ScaledText(text, scale, ups)

\* C9 amended: for every scale other than 1, each token is replaced by the text
\* emitted for its value times scale
C9_PerTokenScaled ==
    (Done /\ ~ScaleIsOne /\ AllEvaluable(text)) =>
        \E ups \in SUBSET EmittedTies(text, scale) :
            result.value = ScaledText(text, scale, ups)

C9_Witness ==
    /\ Done
    /\ text = <<"1", "/", "2", " ", "c", "u", "p", " ", "s", "u", "g", "a", "r">>
    /\ scale = <<2, 1>>
    /\ result.value = <<"1", " ", "c", "u", "p", " ", "s", "u", "g", "a", "r">>

\* C10: when a token cannot be evaluated the call returns, that token is left as
\* written and every other token is scaled
C10_FailOpen ==
    (Done /\ ~AllEvaluable(text)) =>
        /\ result.raised = "none"
        /\ \E ups \in SUBSET EmittedTies(text, scale) :
               result.value = IF ScaleIsOne THEN text ELSE ScaledText(text, scale, ups)

C10_Witness ==
    LET ms == number_matches(text, 1)
    IN  /\ Done /\ ~ScaleIsOne
        /\ \E i, j \in 1..Len(ms) :
              /\ i < j
              /\ Evaluable(ms[i].g1) /\ Emitted(ms[i].g1, scale, "down") # ms[i].g1
              /\ ZeroDenominator(ms[j].g1)
        /\ \E i, j \in 1..Len(ms) :
              /\ i < j
              /\ ZeroDenominator(ms[i].g1)
              /\ Evaluable(ms[j].g1) /\ Emitted(ms[j].g1, scale, "down") # ms[j].g1
        /\ result.value # text

(***************************************************************************)
(* Properties of convert_measurement, checked under SpecMeasure            *)
(***************************************************************************)
\* the unit as convert_measurement looks it up
UnitLower == strip(lower(text))

InLexicon == InCONVERSIONS(UnitLower)

\* C11: for a unit that is not in the lexicon after lower-casing and stripping, the
\* call does not raise and returns the amount and the unit exactly as passed
C11_UnknownUnitIdentity ==
    (Done /\ ~InLexicon) =>
        result = [raised |-> "none", value |-> [amount |-> quantity, unit |-> text]]

\* an unknown unit that lower-casing and stripping would change has been returned
C11_Witness ==
    /\ Done /\ ~InLexicon
    /\ text = <<" ", "S", "t", "o", "n", "e">>
    /\ quantity = Fin(5, 2)
    /\ result.value.unit = text

\* |x| for an integer x
Abs(x) == IF x < 0 THEN -x ELSE x

\* r is the integer nearest to (n / d - 32) * 5/9, the even one of the two when the
\* value is half way between them
IsCelsiusOf(r, n, d) ==
    /\ 2 * Abs(9 * d * r - 5 * (n - 32 * d)) <= 9 * d
    /\ 2 * Abs(9 * d * r - 5 * (n - 32 * d)) = 9 * d => r % 2 = 0

IsTemperature == UnitLower \in TEMPERATURE_UNITS

\* C13: for the units fahrenheit, f and °f (in any letter case) the call returns the
\* integer round((amount - 32) * 5/9) with the unit °C, whatever the amount
C13_Temperature ==
    (Done /\ IsTemperature) =>
        /\ result.raised = "none"
        /\ result.value.unit = <<"deg", "C">>
        /\ result.value.amount.k = "int"
        /\ IsCelsiusOf(result.value.amount.n, quantity.n, quantity.d)

\* C13 for the amounts that are finite: the same, no call raises
C13_FiniteTemperature ==
    (Done /\ IsTemperature /\ quantity.k = "fin") => C13_Temperature

\* C13, the example: convert_measurement(350, "F") == (177, "°C")
C13_Example ==
    (Done /\ quantity = Fin(350, 1) /\ text = <<"F">>) =>
        result = [raised |-> "none",
                  value |-> [amount |-> [k |-> "int", n |-> 177, d |-> 1],
                             unit |-> <<"deg", "C">>]]

\* 350 F has been converted, and so has 36.5 F, which is half way between 2 and 3
C13_Witness ==
    /\ Done /\ IsTemperature
    /\ \/ quantity = Fin(350, 1) /\ text = <<"F">> /\ result.value.amount.n = 177
       \/ quantity = Fin(73, 2) /\ result.value.amount.n = 2

\* the metric unit and the factor (in thousandths) of the unit passed
MetricUnit == LookupCONVERSIONS(UnitLower)[2]
Factor == LookupCONVERSIONS(UnitLower)[3]

\* the unit to which a metric unit is promoted
Promoted(metric_unit) == IF metric_unit = <<"m", "l">> THEN <<"l">> ELSE <<"k", "g">>

\* r / 100 is n * f / (1000 * d) divided by 1000 and rounded to 2 decimals
IsPromotedValue(r, n, f, d) == 2 * Abs(r * 10000 * d - n * f) <= 10000 * d

\* C14: for a unit whose metric unit is ml or g the call returns, when amount * factor
\* is at least 1000, that value divided by 1000 and rounded to 2 decimals with the
\* unit l or kg; when amount * factor is less than 1000 the unit stays ml or g
C14_Promotion ==
    (Done /\ InLexicon /\ ~IsTemperature /\ MetricUnit \in { <<"m", "l">>, <<"g">> }
          /\ quantity.k \in {"fin", "inf"}) =>
        /\ result.raised = "none"
        /\ IF quantity.k = "inf"
           THEN result.value = [amount |-> Inf, unit |-> Promoted(MetricUnit)]
           ELSE IF quantity.n * Factor >= 1000 * 1000 * quantity.d
           THEN /\ result.value.unit = Promoted(MetricUnit)
                /\ result.value.amount.k = "fin" /\ result.value.amount.d = 100
                /\ IsPromotedValue(result.value.amount.n, quantity.n, Factor, quantity.d)
           ELSE result.value.unit = MetricUnit

\* 5 cups have been converted to 1.18 l
C14_Witness ==
    /\ Done
    /\ quantity = Fin(5, 1) /\ text = <<"c", "u", "p", "s">>
    /\ result.value = [amount |-> Fin(118, 100), unit |-> <<"l">>]

\* the float or int x is not negative (False for nan)
NonNegative(x) == x.k = "inf" \/ (x.k \in {"fin", "int"} /\ x.n >= 0)

\* C18: for a non-negative amount and a unit of the lexicon (volume, weight or
\* temperature) the value that the call returns is not negative
C18_NonNegative ==
    (Done /\ InLexicon /\ NonNegative(quantity) /\ result.raised = "none") =>
        NonNegative(result.value.amount)

\* C18 as it holds: the value is not negative for the volume and weight units; for
\* the temperature units it is negative exactly when the amount is below 31.1
C18_NonNegativeButTemperature ==
    (Done /\ InLexicon /\ NonNegative(quantity) /\ result.raised = "none") =>
        IF IsTemperature
        THEN ~NonNegative(result.value.amount) <=> 10 * quantity.n < 311 * quantity.d
        ELSE NonNegative(result.value.amount)

\* 0 F has been converted to -18 °C
C18_Witness ==
    /\ Done
    /\ quantity = Fin(0, 1) /\ text = <<"F">>
    /\ result.value = [amount |-> [k |-> "int", n |-> -18, d |-> 1], unit |-> <<"deg", "C">>]

\* no promotion applies to amount * factor: the metric unit is l, or the product of
\* a finite amount is below 1000
NoPromotion ==
    \/ MetricUnit = <<"l">>
    \/ quantity.k = "fin" /\ quantity.n * Factor < 1000 * 1000 * quantity.d

\* amount * factor is below 10 (False for inf and nan)
BelowTen == quantity.k = "fin" /\ quantity.n * Factor < 10 * 1000 * quantity.d

\* r / unit_d is n * f / (1000 * d) rounded to a multiple of 1 / unit_d
IsRoundedProduct(r, unit_d, n, f, d) ==
    2 * Abs(r * (1000 \div unit_d) * d - n * f) <= (1000 \div unit_d) * d

\* C21: when no promotion applies the call returns amount * factor rounded to 1
\* decimal place if it is below 10 and to the nearest integer if it is 10 or more
C21_Rounding ==
    (Done /\ InLexicon /\ ~IsTemperature /\ NoPromotion /\ quantity.k \in {"fin", "inf"}) =>
        /\ result.raised = "none"
        /\ result.value.unit = MetricUnit
        /\ IF BelowTen
           THEN /\ result.value.amount.k = "fin" /\ result.value.amount.d = 10
                /\ IsRoundedProduct(result.value.amount.n, 10, quantity.n, Factor, quantity.d)
           ELSE /\ result.value.amount.k = "int"
                /\ IsRoundedProduct(result.value.amount.n, 1, quantity.n, Factor, quantity.d)

\* C21 for the amounts that are finite
C21_FiniteRounding ==
    (Done /\ quantity.k = "fin") => C21_Rounding

\* 1 tsp has been converted to 4.9 ml
C21_Witness ==
    /\ Done
    /\ quantity = Fin(1, 1) /\ text = <<"t", "s", "p">>
    /\ result.value = [amount |-> Fin(49, 10), unit |-> <<"m", "l">>]

\* the call has returned a value in ml or g for a non-negative amount of a unit whose
\* metric unit is ml or g
ReturnedSmallUnit ==
    /\ Done /\ InLexicon /\ ~IsTemperature
    /\ MetricUnit \in { <<"m", "l">>, <<"g">> }
    /\ NonNegative(quantity)
    /\ result.raised = "none"
    /\ result.value.unit \in { <<"m", "l">>, <<"g">> }

\* C28: a value returned in ml or g is below 1000 after rounding: a product in
\* [999.5, 1000) is never reported as 1000 ml or 1000 g
C28_BelowThousand ==
    ReturnedSmallUnit => result.value.amount.n < 1000 * result.value.amount.d

\* C28 with the bound included: a value returned in ml or g is at most 1000
C28_AtMostThousand ==
    ReturnedSmallUnit => result.value.amount.n <= 1000 * result.value.amount.d

(***************************************************************************)
(* Letter case of the unit, checked under SpecConvert                      *)
(***************************************************************************)
\* the positions of s that the unit token of the match m covers
UnitSpan(m) == (m.end - Len(m.g2))..(m.end - 1)

\* the conversion text of the match m of s with echoed as the unit in the parentheses
ConversionTextEchoing(s, m, tie, echoed) ==
    LET cm == convert_measurement(convert_fraction_to_decimal(AmountText(s, m)),
                                  UnitText(s, m), tie)
    IN  format(cm.amount) \o <<" ">> \o cm.unit \o <<" ", "(">>
            \o AmountText(s, m) \o <<" ">> \o echoed \o <<")">>

\* the texts s and lowered differ only inside the unit tokens of the matches msL
DifferInUnitsOnly(s, lowered, units) ==
    \A k \in 1..Len(s) : s[k] # lowered[k] => k \in units

\* the matches ms and msL are the same but for the letter case of the unit, and each
\* pair converts to the same metric value and unit (or raises the same exception)
SameMatches(ms, msL) ==
    /\ Len(ms) = Len(msL)
    /\ \A i \in 1..Len(ms) :
          /\ ms[i].start = msL[i].start /\ ms[i].end = msL[i].end
          /\ ms[i].g1 = msL[i].g1 /\ lower(ms[i].g2) = msL[i].g2
          /\ \A tie \in {"down", "up"} :
                 Returned(Converted(convert_fraction_to_decimal(ms[i].g1), ms[i].g2, tie))
                   = Returned(Converted(convert_fraction_to_decimal(ms[i].g1),
                                        msL[i].g2, tie))

\* the output for s, in which the matches msL of lowered are replaced by their
\* conversion, echoing the unit as s writes it
OutputEchoing(s, lowered, msL, ups) ==
    Interleave(s, msL,
        [i \in 1..Len(msL) |->
            IF HasConversion(lowered, msL[i])
            THEN ConversionTextEchoing(lowered, msL[i], TieAt(ups, msL[i]),
                                       UnitText(s, msL[i]))
            ELSE Span(s, msL[i])])

SameOutputs(s, lowered, msL, out, outL, ups) ==
    /\ out.raised = outL.raised
    /\ out.raised = "none" =>
          /\ outL.value = OutputEchoing(lowered, lowered, msL, ups)
          /\ out.value = OutputEchoing(s, lowered, msL, ups)

CaseInsensitive(s, lowered, ms, msL, out) ==
    /\ DifferInUnitsOnly(s, lowered, UNION {UnitSpan(msL[i]) : i \in 1..Len(msL)})
    /\ SameMatches(ms, msL)
    /\ \E ups \in SUBSET ConvertTiesOf(lowered, msL) :
          SameOutputs(s, lowered, msL, out, convert_text(lowered, ups), ups)

\* C12: unit matching is case-insensitive: the text and the text with its unit tokens
\* in lower case have the same matches, each match converts to the same metric value
\* and unit, and the two outputs differ only in the letter case of the original that
\* is echoed (or left in place when the match is not converted)
C12_CaseInsensitive ==
    Done => CaseInsensitive(text, lower(text), measurement_matches(text, 1),
                            measurement_matches(lower(text), 1), result)

\* "2 Cup" has been converted as "2 cup" is, the echo keeping the capital
C12_Witness ==
    /\ Done
    /\ text = <<"2", " ", "C", "u", "p">>
    /\ result.value = <<"4", "7", "3", " ", "m", "l", " ", "(", "2", " ", "C", "u", "p", ")">>
    /\ convert_text(lower(text), {}).value
         = <<"4", "7", "3", " ", "m", "l", " ", "(", "2", " ", "c", "u", "p", ")">>

(***************************************************************************)
(* Zero amounts and ranges, checked under SpecConvert                      *)
(***************************************************************************)
\* the amount of the match is zero ("0", "00", "0/1", "0.0")
IsZeroAmount(amount_str) ==
    convert_fraction_to_decimal(amount_str).k = "fin"
        /\ convert_fraction_to_decimal(amount_str).n = 0

\* what stands for a match with amount 0 and the unit unit_lower of the lexicon:
\* "0.0 <metric unit>" for a volume or a weight, celsius for a temperature
ZeroConverted(unit_lower, celsius) ==
    IF unit_lower \in TEMPERATURE_UNITS THEN celsius \o <<" ", "deg", "C">>
    ELSE <<"0", ".", "0", " ">> \o LookupCONVERSIONS(unit_lower)[2]

\* the replacement of a match with amount 0: the conversion and the parenthesised
\* amount and unit as written
ZeroText(m, celsius) ==
    ZeroConverted(strip(lower(m.g2)), celsius)
        \o <<" ", "(">> \o m.g1 \o <<" ">> \o m.g2 \o <<")">>

\* the output in which every match with amount 0 is replaced by ZeroText
ZeroOutput(s, ms, ups, celsius) ==
    Interleave(s, ms,
        [i \in 1..Len(ms) |->
            IF IsZeroAmount(ms[i].g1) THEN ZeroText(ms[i], celsius)
            ELSE IF HasConversion(s, ms[i]) THEN ConversionText(s, ms[i], TieAt(ups, ms[i]))
            ELSE Span(s, ms[i])])

HasZeroAmount(ms) == \E i \in 1..Len(ms) : IsZeroAmount(ms[i].g1)

ZeroAmounts(s, ms, out, celsius) ==
    (HasZeroAmount(ms) /\ out.raised = "none") =>
        \E ups \in SUBSET ConvertTiesOf(s, ms) : out.value = ZeroOutput(s, ms, ups, celsius)

\* C19: for every unit of the lexicon a match with amount 0 is converted to the value
\* 0 of the metric unit and is followed by the parenthesised original
C19_ZeroAmount ==
    Done => ZeroAmounts(text, measurement_matches(text, 1), result, <<"0">>)

\* C19 as it holds: the value is 0 (written 0.0) for the volume and weight units and
\* -18 for the temperature units, followed by the parenthesised amount and unit
C19_ZeroAmountButTemperature ==
    Done => ZeroAmounts(text, measurement_matches(text, 1), result, <<"-", "1", "8">>)

\* "0 F" has been converted to "-18 °C (0 F)"
C19_Witness ==
    /\ Done
    /\ text = <<"0", " ", "F">>
    /\ result.value = <<"-", "1", "8", " ", "deg", "C", " ", "(", "0", " ", "F", ")">>

\* the match has a range part "to B" between its amount and its unit
IsRange(s, m) == \E k \in (m.start + Len(m.g1))..(m.end - Len(m.g2) - 1) : lower_char(s[k]) = "t"

\* "A <unit>" for the match m, and its conversion by convert_text
LowerBoundText(m) == m.g1 \o <<" ">> \o m.g2

LowerBoundConversion(m, tie) ==
    convert_text(LowerBoundText(m), IF tie = "up" THEN {1} ELSE {}).value

\* the output in which every converted range "A to B <unit>" is replaced by the
\* conversion of "A <unit>"
RangeOutput(s, ms, ups) ==
    Interleave(s, ms,
        [i \in 1..Len(ms) |->
            IF ~HasConversion(s, ms[i]) THEN Span(s, ms[i])
            ELSE IF IsRange(s, ms[i]) THEN LowerBoundConversion(ms[i], TieAt(ups, ms[i]))
            ELSE ConversionText(s, ms[i], TieAt(ups, ms[i]))])

HasRange(s, ms) == \E i \in 1..Len(ms) : IsRange(s, ms[i]) /\ HasConversion(s, ms[i])

LowerBoundOnly(s, ms, out) ==
    (HasRange(s, ms) /\ out.raised = "none") =>
        \E ups \in SUBSET ConvertTiesOf(s, ms) : out.value = RangeOutput(s, ms, ups)

\* C20: a match "A to B <unit>" is replaced by the conversion of "A <unit>": the
\* converted value depends on A only and is the same for every upper bound B
C20_LowerBoundOnly ==
    Done => LowerBoundOnly(text, measurement_matches(text, 1), result)

\* "2 to 3 cups" has been converted as "2 cups" is
C20_Witness ==
    /\ Done
    /\ text = <<"2", " ", "t", "o", " ", "3", " ", "c", "u", "p", "s">>
    /\ result.value = <<"4", "7", "3", " ", "m", "l", " ", "(", "2", " ", "c", "u", "p", "s", ")">>
    /\ result.value = convert_text(<<"2", " ", "c", "u", "p", "s">>, {}).value

(***************************************************************************)
(* Whole words and the single pass, checked under SpecConvert              *)
(***************************************************************************)
\* position j of s holds a word character
WordAt(s, j) == j >= 1 /\ j <= Len(s) /\ IsWord(s[j])

\* the unit u of the lexicon stands at position j of s, in any letter case, and no
\* word character follows it
UnitWordAt(s, j, u) ==
    /\ j + Len(u) - 1 <= Len(s)
    /\ lower(SubSeq(s, j, j + Len(u) - 1)) = u
    /\ ~WordAt(s, j + Len(u))

\* somewhere in s a unit of the lexicon ends a word
HasUnitWord(s) ==
    \E j \in 1..Len(s) : \E a \in 1..Len(UNIT_ALTERNATIVES) :
        UnitWordAt(s, j, UNIT_ALTERNATIVES[a])

\* C22: a unit token is matched only as a whole word: no word character stands right
\* before it or right after it
C22_WholeWord ==
    LET ms == measurement_matches(text, 1)
    IN  Done => \A i \in 1..Len(ms) :
                    /\ ~WordAt(text, ms[i].end)
                    /\ ~WordAt(text, ms[i].end - Len(ms[i].g2) - 1)

\* every match ends where its unit ends a word, and what stands right before the unit
\* is a digit of the amount or of the range, or white space
EndsWords(s, ms) ==
    \A i \in 1..Len(ms) :
        /\ ~WordAt(s, ms[i].end)
        /\ IsDigit(s[ms[i].end - Len(ms[i].g2) - 1]) \/ IsSpace(s[ms[i].end - Len(ms[i].g2) - 1])

\* C22 as it holds: a unit token is matched only when no word character follows it,
\* so a text in which no unit ends a word is returned unchanged; before the token
\* stands a digit or white space, never a letter
C22_WordEnd ==
    Done =>
        /\ EndsWords(text, measurement_matches(text, 1))
        /\ ~HasUnitWord(text) => result = [raised |-> "none", value |-> text]

\* "2 cupboards" has been returned as it is
C22_Witness ==
    /\ Done
    /\ text = <<"2", " ", "c", "u", "p", "b", "o", "a", "r", "d", "s">>
    /\ ~HasUnitWord(text)
    /\ result.value = text

\* the spans of ms lie one after the other in s, none empty, none overlapping
InOrder(s, ms) ==
    /\ \A i \in 1..Len(ms) : 1 <= ms[i].start /\ ms[i].start < ms[i].end
                                /\ ms[i].end <= Len(s) + 1
    /\ \A i \in 1..(Len(ms) - 1) : ms[i].end <= ms[i + 1].start

\* the positions of s that no span of ms covers
Unmatched(s, ms) ==
    {j \in 1..Len(s) : \A i \in 1..Len(ms) : j < ms[i].start \/ j >= ms[i].end}

\* every span of ms is a match of the pattern at its start, and the pattern matches
\* at no position of an unmatched segment
LeftToRight(s, ms) ==
    /\ \A i \in 1..Len(ms) : measurement_pattern(s, ms[i].start) = ms[i]
    /\ \A j \in Unmatched(s, ms) : ~measurement_pattern(s, j).found

\* the replacement of each match: its conversion, or the match itself when it is not
\* converted
Replacements(s, ms, ups) ==
    [i \in 1..Len(ms) |->
        IF HasConversion(s, ms[i]) THEN ConversionText(s, ms[i], TieAt(ups, ms[i]))
        ELSE Span(s, ms[i])]

SinglePass(s, ms, out) ==
    /\ InOrder(s, ms)
    /\ LeftToRight(s, ms)
    /\ out.raised = "none" =>
          \E ups \in SUBSET ConvertTiesOf(s, ms) :
              out.value = Interleave(s, ms, Replacements(s, ms, ups))

\* C23: the spans matched in one call do not overlap and are taken left to right, and
\* the output is the unmatched segments of the input, unchanged and in order, with
\* one replacement per match between them; no replacement is scanned again
C23_SinglePass ==
    Done => SinglePass(text, measurement_matches(text, 1), result)

\* two matches have been replaced, and the output still holds text that the pattern
\* matches: the echo of the first replacement
C23_Witness ==
    /\ Done
    /\ text = <<"2", " ", "c", "u", "p", "s", ",", " ", "2", " ", "t", "o", " ", "3", " ", "o", "z">>
    /\ result.raised = "none"
    /\ Len(measurement_matches(text, 1)) = 2
    /\ measurement_pattern(result.value, 9).found

(***************************************************************************)
(* A second pass and the text of a range, checked under SpecConvert        *)
(***************************************************************************)
\* a second call of convert_text on the text out returns out
SecondPassSame(out) ==
    \E ups \in SUBSET ConvertTies(out) : convert_text(out, ups) = [raised |-> "none", value |-> out]

\* C26: convert_text(convert_text(t)) == convert_text(t): the original quantity that
\* a conversion leaves in parentheses is not matched and converted again
C26_Idempotent ==
    (Done /\ result.raised = "none") => SecondPassSame(result.value)

\* the text t stands somewhere in s
HasText(s, t) == \E j \in 1..(Len(s) - Len(t) + 1) : SubSeq(s, j, j + Len(t) - 1) = t

\* the range part "to B" of every converted match "A to B <unit>" of s stands in out
RangeTextKept(s, ms, out) ==
    \A i \in 1..Len(ms) :
        (IsRange(s, ms[i]) /\ HasConversion(s, ms[i])) => HasText(out, RangePart(s, ms[i]))

\* C27: no text of a matched range is lost: when a match "A to B <unit>" is converted,
\* the word "to" and the upper bound B still stand in the output
C27_RangeTextKept ==
    (Done /\ result.raised = "none") =>
        RangeTextKept(text, measurement_matches(text, 1), result.value)

(***************************************************************************)
(* Properties of parse_iso_duration, checked under SpecDuration            *)
(***************************************************************************)
\* C15: an input that does not start with "PT" is returned unchanged
C15_PassThrough ==
    (Done /\ ~startswith_PT(text)) => result = [raised |-> "none", value |-> text]

\* "P1DT2H", which has an hour part but not the prefix, has been returned as it is
C15_Witness ==
    /\ Done
    /\ text = <<"P", "1", "D", "T", "2", "H">>
    /\ result.value = text

\* the length of the part "<digits><letter>" of s at position j, 0 when s has no
\* such part there
PartLen(s, j, letter) ==
    IF DigitRun(s, j) > 0 /\ j + DigitRun(s, j) <= Len(s) /\ s[j + DigitRun(s, j)] = letter
    THEN DigitRun(s, j) + 1
    ELSE 0

HourLen(s) == PartLen(s, 3, "H")
MinuteLen(s) == PartLen(s, 3 + HourLen(s), "M")

\* s is "PT" followed by an hour part and/or a minute part, and nothing else
IsHourMinute(s) ==
    /\ startswith_PT(s)
    /\ HourLen(s) + MinuteLen(s) > 0
    /\ 2 + HourLen(s) + MinuteLen(s) = Len(s)

\* the count <n> of the part of length len at position j
PartCount(s, j, len) == IntVal(SubSeq(s, j, j + len - 2), 0)

\* "<n> <word>", the word in the plural when n is not 1
PartText(n, word) ==
    str_int(n) \o <<" ">> \o word \o (IF n # 1 THEN <<"s">> ELSE <<>>)

\* the parts of s that are present, hours first, joined by one space
HourMinuteText(s) ==
    (IF HourLen(s) > 0 THEN PartText(PartCount(s, 3, HourLen(s)), <<"h", "o", "u", "r">>)
     ELSE <<>>)
    \o (IF HourLen(s) > 0 /\ MinuteLen(s) > 0 THEN <<" ">> ELSE <<>>)
    \o (IF MinuteLen(s) > 0
        THEN PartText(PartCount(s, 3 + HourLen(s), MinuteLen(s)),
                      <<"m", "i", "n", "u", "t", "e">>)
        ELSE <<>>)

\* C16: for "PT" followed by an hour part "<h>H" and/or a minute part "<m>M" the call
\* returns the parts that are present as "<h> hour(s)" and "<m> minute(s)", hours
\* first, joined by one space
C16_Formatting ==
    (Done /\ IsHourMinute(text)) => result.value = HourMinuteText(text)

\* every count of the parts of s that are present is positive
PositiveCounts(s) ==
    /\ HourLen(s) > 0 => PartCount(s, 3, HourLen(s)) > 0
    /\ MinuteLen(s) > 0 => PartCount(s, 3 + HourLen(s), MinuteLen(s)) > 0

\* C16 for the inputs in which no count is zero
C16_FormattingPositive ==
    (Done /\ IsHourMinute(text) /\ PositiveCounts(text)) => result.value = HourMinuteText(text)

\* C16, the examples: "PT1H30M" gives "1 hour 30 minutes", "PT45M" gives "45 minutes"
C16_Examples ==
    /\ (Done /\ text = <<"P", "T", "1", "H", "3", "0", "M">>) =>
          result.value = <<"1", " ", "h", "o", "u", "r", " ",
                           "3", "0", " ", "m", "i", "n", "u", "t", "e", "s">>
    /\ (Done /\ text = <<"P", "T", "4", "5", "M">>) =>
          result.value = <<"4", "5", " ", "m", "i", "n", "u", "t", "e", "s">>

\* C17: the call never returns an empty string for a non-empty input: when the input
\* starts with "PT" and neither part is found, what it returns is the input without
\* the prefix, and that is not empty
C17_NeverEmpty ==
    (Done /\ text # <<>>) => result.value # <<>>

\* C17 for every non-empty input but "PT" itself
C17_NeverEmptyButPT ==
    (Done /\ text # <<>> /\ text # <<"P", "T">>) => result.value # <<>>

\* C17, the fallback: with no hour and no minute part anywhere after the prefix, the
\* input without the prefix is returned
C17_Fallback ==
    (Done /\ startswith_PT(text)
          /\ \A j \in 3..Len(text) : PartLen(text, j, "H") = 0 /\ PartLen(text, j, "M") = 0) =>
        result.value = SubSeq(text, 3, Len(text))

\* the position of the first part "<digits><letter>" of s after the prefix, 0 when s
\* has none
FirstPart(s, letter) == MinOrZero({j \in 3..Len(s) : PartLen(s, j, letter) > 0})

\* the count of the first part of s with this letter
FirstCount(s, letter) ==
    PartCount(s, FirstPart(s, letter), PartLen(s, FirstPart(s, letter), letter))

\* t stands in s as whole words: at the start or after a space, and up to the end or
\* a space
HasWords(s, t) ==
    \E j \in 1..(Len(s) - Len(t) + 1) :
        /\ SubSeq(s, j, j + Len(t) - 1) = t
        /\ j = 1 \/ s[j - 1] = " "
        /\ j + Len(t) - 1 = Len(s) \/ s[j + Len(t)] = " "

\* the first part of the text with this letter is returned as "<n> <word>", the word
\* in the plural exactly when n is not 1
Pluralised(letter, word) ==
    FirstPart(text, letter) > 0 =>
        HasWords(result.value, PartText(FirstCount(text, letter), word))

\* C25: the unit word is in the plural exactly when the count of its part is not 1,
\* for every count of an hour part or a minute part, 0 included
C25_Pluralisation ==
    (Done /\ startswith_PT(text)) =>
        /\ Pluralised("H", <<"h", "o", "u", "r">>)
        /\ Pluralised("M", <<"m", "i", "n", "u", "t", "e">>)

\* C25 for the parts whose count is positive
C25_PluralisationPositive ==
    (Done /\ startswith_PT(text)) =>
        /\ (FirstPart(text, "H") > 0 /\ FirstCount(text, "H") > 0) =>
              Pluralised("H", <<"h", "o", "u", "r">>)
        /\ (FirstPart(text, "M") > 0 /\ FirstCount(text, "M") > 0) =>
              Pluralised("M", <<"m", "i", "n", "u", "t", "e">>)

\* the count of the first part of the text with this letter, 0 when it has none
CountOf(letter) == IF FirstPart(text, letter) = 0 THEN 0 ELSE FirstCount(text, letter)

\* the hour and minute parts with a positive count, hours first, joined by one space
PositivePartsText(h, m) ==
    (IF h > 0 THEN PartText(h, <<"h", "o", "u", "r">>) ELSE <<>>)
    \o (IF h > 0 /\ m > 0 THEN <<" ">> ELSE <<>>)
    \o (IF m > 0 THEN PartText(m, <<"m", "i", "n", "u", "t", "e">>) ELSE <<>>)

\* with an hour or minute part of positive count in the text, the output is made of
\* the positive hour and minute counts alone, hours first
OrderIndependent ==
    (CountOf("H") > 0 \/ CountOf("M") > 0) =>
        result.value = PositivePartsText(CountOf("H"), CountOf("M"))

\* a part of the text with this letter and the count 0 is not in the output, neither
\* as it is written nor as a unit word
ZeroOmitted(letter, word) ==
    (FirstPart(text, letter) > 0 /\ FirstCount(text, letter) = 0) =>
        /\ ~HasText(result.value, word)
        /\ ~HasText(result.value,
                    SubSeq(text, FirstPart(text, letter),
                           FirstPart(text, letter) + PartLen(text, FirstPart(text, letter), letter) - 1))

\* C30: for an input that starts with "PT" the hours come before the minutes whatever
\* their order in the input, a part whose count is 0 is omitted, and a seconds part
\* adds nothing when an hour or minute part with a positive count is present
C30_OrderIndependent ==
    (Done /\ startswith_PT(text)) =>
        /\ OrderIndependent
        /\ ZeroOmitted("H", <<"h", "o", "u", "r">>)
        /\ ZeroOmitted("M", <<"m", "i", "n", "u", "t", "e">>)

\* C30 for the inputs with an hour or minute part of positive count
C30_OrderIndependentPositive ==
    (Done /\ startswith_PT(text)) =>
        /\ OrderIndependent
        /\ (CountOf("H") > 0 \/ CountOf("M") > 0) =>
              /\ ZeroOmitted("H", <<"h", "o", "u", "r">>)
              /\ ZeroOmitted("M", <<"m", "i", "n", "u", "t", "e">>)

(***************************************************************************)
(* Properties of the shopping-list scale factor, checked under SpecShopping *)
(***************************************************************************)
\* the digits of s from i to j are the first maximal run of digits in s
IsFirstRun(s, i, j) ==
    /\ 1 <= i /\ i <= j /\ j <= Len(s)
    /\ \A k \in 1..(i - 1) : ~IsDigit(s[k])
    /\ \A k \in i..j : IsDigit(s[k])
    /\ j = Len(s) \/ ~IsDigit(s[j + 1])

HasDigit(s) == \E k \in 1..Len(s) : IsDigit(s[k])

\* base is the first maximal run of digits of s read as an integer, 1 when s has no
\* digit (or is empty)
IsBaseServings(s, base) ==
    IF HasDigit(s)
    THEN \E i, j \in 1..Len(s) : IsFirstRun(s, i, j) /\ base = IntVal(SubSeq(s, i, j), 0)
    ELSE base = 1

\* C24: the base servings are the first maximal run of digits of the servings string
\* read as an integer, 1 when the string is empty or has no digit, and the scale is
\* the planned servings divided by the base servings
C24_ScaleFactor ==
    Done =>
        /\ IsBaseServings(text, result.value.recipe_servings)
        /\ scale[1] * result.value.recipe_servings = quantity.n * scale[2]

\* C24 as it holds: the same, the scale being 1 when the base servings are 0
C24_ScaleFactorZeroGuard ==
    Done =>
        /\ IsBaseServings(text, result.value.recipe_servings)
        /\ IF result.value.recipe_servings > 0
           THEN scale[1] * result.value.recipe_servings = quantity.n * scale[2]
           ELSE scale = <<1, 1>>

\* the servings "12 s" with 3 planned servings have given the scale 3 / 12
C24_Witness ==
    /\ Done
    /\ text = <<"1", "2", " ", "s">>
    /\ quantity.n = 3
    /\ result.value.recipe_servings = 12
    /\ scale = <<3, 12>>

\* the title carries the suffix "(N servings)"
HasSuffix == result.value.recipe # Title

\* C29: the title carries the suffix "(N servings)" if and only if the ingredients
\* were scaled with a factor different from 1, also when the first integer of the
\* servings string is 0
C29_LabelConsistent ==
    Done => (HasSuffix <=> ~ScaleIsOne)

\* C29 for the servings strings whose base servings are positive
C29_LabelConsistentPositiveBase ==
    (Done /\ result.value.recipe_servings > 0) => (HasSuffix <=> ~ScaleIsOne)

\* C29, the ingredients: they are changed only when the scale is not 1
C29_ScaledOnlyWhenNotOne ==
    (Done /\ ScaleIsOne) => result.value.ingredients = <<Ingredient>>

====
